---- MODULE Spec2Model ----
(***************************************************************************)
(* Merge-request write workflow of infra_agent/providers/gl.py:            *)
(*   - the one-shot tool  create_merge_request(...)                        *)
(*   - the stateful       GitlabMergeRequestFactory                        *)
(* together with the part of the GitLab service they talk to (branches,    *)
(* repository trees, multi-file commits, merge-request creation).          *)
(*                                                                         *)
(* The handlers contain no suspension point (python-gitlab calls block),   *)
(* so one handler invocation is one step.  The remote calls an invocation  *)
(* makes are recorded, in order, in `calls`; its outcome in `result`.      *)
(***************************************************************************)
EXTENDS Integers, Sequences, FiniteSets, TLC

\* ---------------------------------------------------------------- bounds
\* how many file paths and how many working-branch names there are
NumPaths == 2
NumBranches == 1

PathPool == <<"values.yaml", "new.yaml", "Chart.yaml">>
BranchPool == <<"fix-branch", "test14", "hotfix">>

Paths == {PathPool[i] : i \in 1..NumPaths}
WorkBranches == {BranchPool[i] : i \in 1..NumBranches}

\* whole-file contents a caller supplies (opaque to the workflow)
Contents == {"replicas: 1", "replicas: 2"}

\* ------------------------------------------------------ program constants
None == "None"
mr_target_branch_name == "main"
_source_branch == "main"
BranchNames == {mr_target_branch_name} \cup WorkBranches

CommitMessages == {"bump replica count"}
Titles == {"Fix replicas"}
Descriptions == {"..."}

\* A remote call can fail for transport / permission reasons whatever the
\* repository holds.  `down` is the set of call sites (source lines of
\* providers/gl.py) that fail that way during one invocation.
ToolSites == {136, 54, 55, 148, 172}
CommitSites == {245, 252, 257, 271}
RequestSites == {278}

\* create_merge_request and the factory's create_merge_request stop at their
\* first failed call: one failing site stands for every outage starting there.
ToolOutages == {{}} \cup {{s} : s \in ToolSites}
RequestOutages == SUBSET RequestSites
\* create_commit_in_branch goes on after a failed branch creation (line 245)
\* and stops at the first failed call after it.
CommitOutages == {d \in SUBSET CommitSites : Cardinality(d \ {245}) <= 1}
\* list_files_in_merge_request stops at its first failed call
QuerySites == {40, 41, 54, 55, 205, 206}
QueryOutages == {{}} \cup {{s} : s \in QuerySites}

\* --------------------------------------------------------- python dicts
\* A dict is its items in insertion order: a sequence of <<key, value>>
\* with pairwise different keys.
Keys(d) == {d[i][1] : i \in 1..Len(d)}

IsDict(d) == \A i, j \in 1..Len(d) : d[i][1] = d[j][1] => i = j

Dicts == {d \in UNION {[1..n -> Paths \X Contents] : n \in 0..NumPaths} : IsDict(d)}

DictGet(d, k) == LET i == CHOOSE i \in 1..Len(d) : d[i][1] = k IN d[i][2]

\* d[k] = v : an existing key keeps its position, a new key goes last
DictSet(d, k, v) ==
  IF k \in Keys(d)
  THEN [i \in 1..Len(d) |-> IF d[i][1] = k THEN <<k, v>> ELSE d[i]]
  ELSE Append(d, <<k, v>>)

\* ------------------------------------------------------- remote service
\* The repository as the write workflow sees it: existing branch name ->
\* the paths of its tree (what repository_tree lists).  The workflow never
\* reads a file's content back, it only sends contents in commit actions.
Trees == SUBSET Paths

Repos == UNION {[bs -> Trees] : bs \in {S \in SUBSET BranchNames : mr_target_branch_name \in S}}

\* The merge requests the service knows, by id: one per working-branch
\* name, into "main".  A source branch may be gone from the repository.
MergeRequests ==
  [id \in 1..NumBranches |->
     [source_branch |-> BranchPool[id], target_branch |-> mr_target_branch_name]]

\* ids a caller may ask for: the known ones and one the service lacks
MergeRequestIds == 1..(NumBranches + 1)

\* the two orchestrator instances of a race on one working-branch name
Orchestrators == {1, 2}

\* pending edits of a racing orchestrator: the race is decided by paths, so
\* every edit carries the same content
EditSets == {d \in Dicts : \A i \in 1..Len(d) : d[i][2] = "replicas: 2"}

\* the remote repository
VARIABLE repo
\* GitlabMergeRequestFactory._files
VARIABLE _files
\* GitlabMergeRequestFactory._mr_branch
VARIABLE _mr_branch
\* history: branch of the factory's most recent accepted commit
VARIABLE committed
\* history, kept by SpecLifecycle only: the factory has issued a
\* mergerequests.create call
VARIABLE requested
\* two orchestrator instances running create_commit_in_branch call by call
\* for one branch name (SpecRace only): the name, whether the repository
\* lacked it when the race began, and each instance's locals and fields
VARIABLE race
\* the invocation just completed: handler name and inputs ("idle": none)
VARIABLE op
\* the remote calls that invocation issued, in order
VARIABLE calls
\* what that invocation gave its caller
VARIABLE result

vars == <<repo, _files, _mr_branch, committed, requested, race, op, calls, result>>

\* one remote call: the client method, the source line issuing it, its
\* argument, whether the service answered it, and why not
Call(api, line, arg, ok, err) ==
  [api |-> api, line |-> line, arg |-> arg, ok |-> ok, err |-> err]

\* reason of a failed call: transport first, else the service's own verdict
Reason(line, down, accepted, verdict) ==
  IF line \in down THEN "unavailable" ELSE IF accepted THEN "" ELSE verdict

Idle == [name |-> "idle", inputs |-> None]

NoResult == [kind |-> "none", tool_name |-> None, message |-> None, inputs |-> None]

\* the caller gets a value back
Returned == [kind |-> "return", tool_name |-> None, message |-> None, inputs |-> None]

\* models.generic.PromptToolError(message, tool_name, inputs)
PromptToolError(message, tool_name, inputs) ==
  [kind |-> "PromptToolError", tool_name |-> tool_name, message |-> message, inputs |-> inputs]

\* the caller gets the dict list_files_in_merge_request built
ReturnedValue(value) ==
  [kind |-> "return", tool_name |-> None, message |-> None, inputs |-> None, value |-> value]

\* an exception of the gitlab client escaping the handler as it is
RawException(api) ==
  [kind |-> "GitlabError", tool_name |-> None, message |-> api, inputs |-> None]

\* project.repository_tree(ref=..., all=True, recursive=True): the paths
repository_tree(r, ref) == r[ref]

\* the list repository_tree answers with, in the service's path order
tree_listing(r, ref) ==
  SelectSeq([i \in 1..NumPaths |-> PathPool[i]], LAMBDA p : p \in r[ref])

\* project.files.get(file_path=..., ref=...): served when the tree of the
\* ref has a file at exactly that path
files_get(r, ref, file_path) == ref \in DOMAIN r /\ file_path \in r[ref]

\* file.decode().decode("utf8"): the text of the file served for ref, path
decoded(ref, file_path) == <<"content of", ref, file_path>>

\* branches.create({"branch": b, "ref": ref}) accepted by the service
branches_create(r, b, ref) ==
  [x \in DOMAIN r \cup {b} |-> IF x = b THEN r[ref] ELSE r[x]]

\* The service applies the actions of one commit in order and rejects the
\* whole commit when a "create" names a present path or an "update" an
\* absent one.
RECURSIVE apply_actions(_, _)
apply_actions(tree, actions) ==
  IF actions = <<>> THEN [ok |-> TRUE, tree |-> tree]
  ELSE LET a == Head(actions)
           present == a.file_path \in tree
       IN IF (a.action = "create" /\ present) \/ (a.action = "update" /\ ~present)
          THEN [ok |-> FALSE, tree |-> tree]
          ELSE apply_actions(tree \cup {a.file_path}, Tail(actions))

\* commits.create(payload) as the service decides it.  With a start_branch
\* different from the branch, the branch is cut from start_branch and must
\* not exist yet; otherwise the commit goes on top of the existing branch.
commits_create(r, payload) ==
  LET b == payload.branch
      cut == payload.start_branch # None /\ payload.start_branch # b
      base == IF cut THEN payload.start_branch ELSE b
      allowed == IF cut THEN b \notin DOMAIN r /\ base \in DOMAIN r
                 ELSE b \in DOMAIN r
      applied == apply_actions(r[base], payload.actions)
  IN IF allowed /\ applied.ok
     THEN [ok |-> TRUE,
           repo |-> [x \in DOMAIN r \cup {b} |-> IF x = b THEN applied.tree ELSE r[x]]]
     ELSE [ok |-> FALSE, repo |-> r]

\* mergerequests.create(payload) as the service decides it
mergerequests_create(r, payload) ==
  /\ payload.source_branch \in DOMAIN r
  /\ payload.target_branch \in DOMAIN r
  /\ payload.source_branch # payload.target_branch

\* ------------------------------------------------------------ classifier
\* variant: every path is labeled "create", the baseline tree is not consulted
commit_actions_all_create(files, existing_files) ==
  [i \in 1..Len(files) |->
     [action |-> "create", file_path |-> files[i][1], content |-> files[i][2]]]

\* the loop building commit_actions from a dict's items
commit_actions(files, existing_files) ==
  [i \in 1..Len(files) |->
     [action |-> IF files[i][1] \in existing_files THEN "update" ELSE "create",
      file_path |-> files[i][1],
      content |-> files[i][2]]]

\* ------------------------------------------------------------------ Init
\* no race is being run
NoRace == [branch_name |-> None, fresh |-> FALSE, orchestrator |-> <<>>]

\* GitlabMergeRequestFactory.__init__ has run; the repository is any
\* repository holding "main".
Init ==
  /\ repo \in Repos
  /\ _files = <<>>
  /\ _mr_branch = None
  /\ committed = None
  /\ requested = FALSE
  /\ race = NoRace
  /\ op = Idle
  /\ calls = <<>>
  /\ result = NoResult

\* the caller has taken the outcome of the completed invocation
Acknowledge ==
  /\ op # Idle
  /\ op' = Idle
  /\ calls' = <<>>
  /\ result' = NoResult
  /\ UNCHANGED <<repo, _files, _mr_branch, committed, requested, race>>

\* ------------------------------------------------- one-shot tool function
\* variant: the emptiness check is missing
files_missing_unchecked(files_updated) == FALSE

\* `if not files_updated`
files_missing(files_updated) == files_updated = <<>>

\* the error raised for a missing files_updated
validation_error(inputs) ==
  PromptToolError("Missing or empty file_contents parameter!", "create_merge_request", inputs)

\* variant: the commit failure is reported with the other handler's message
commit_error_as_request(inputs) ==
  PromptToolError("Problem creating merge request from commit!", "create_merge_request", inputs)

\* the error the first try/except makes of a failed commits.create
commit_error(inputs) ==
  PromptToolError("Problem creating commit!", "create_merge_request", inputs)

\* variant: the merge-request failure is reported with the commit handler's message
request_error_as_commit(inputs) ==
  PromptToolError("Problem creating commit!", "create_merge_request", inputs)

\* the error the second try/except makes of a failed mergerequests.create
request_error(inputs) ==
  PromptToolError("Problem creating merge request from commit!", "create_merge_request", inputs)

\* create_merge_request(merge_request_branch, commit_message, title,
\*                      description, files_updated)
create_merge_request(merge_request_branch, commit_message, title, description, files_updated, down) ==
  LET inputs == [merge_request_branch |-> merge_request_branch,
                 commit_message |-> commit_message,
                 title |-> title,
                 description |-> description,
                 files_updated |-> files_updated]
      get == Call("projects.get", 136, None, 136 \notin down, Reason(136, down, TRUE, ""))
      \* list_files_in_branch("main")
      lget == Call("projects.get", 54, None, 54 \notin down, Reason(54, down, TRUE, ""))
      ltree == Call("repository_tree", 55, [ref |-> "main"], 55 \notin down,
                    Reason(55, down, TRUE, ""))
      existing_files == repository_tree(repo, "main")
      actions == commit_actions(files_updated, existing_files)
      payload == [commit_message |-> commit_message,
                  author_email |-> "ai",
                  author_name |-> "ai",
                  actions |-> actions,
                  branch |-> merge_request_branch,
                  start_branch |-> mr_target_branch_name]
      landed == commits_create(repo, payload)
      commit == Call("commits.create", 148, payload, 148 \notin down /\ landed.ok,
                     Reason(148, down, landed.ok, "rejected"))
      request == [source_branch |-> merge_request_branch,
                  target_branch |-> mr_target_branch_name,
                  title |-> title,
                  description |-> description,
                  labels |-> "ai,automerge",
                  remove_source_branch |-> FALSE]
      opened == mergerequests_create(landed.repo, request)
      create == Call("mergerequests.create", 172, request, 172 \notin down /\ opened,
                     Reason(172, down, opened, "rejected"))
  IN /\ op' = [name |-> "create_merge_request", inputs |-> inputs]
     /\ UNCHANGED <<_files, _mr_branch, committed>>
     /\ IF files_missing(files_updated)
        THEN /\ calls' = <<>>
             /\ result' = validation_error(inputs)
             /\ repo' = repo
        ELSE IF ~get.ok
        THEN /\ calls' = <<get>>
             /\ result' = RawException("projects.get")
             /\ repo' = repo
        ELSE IF ~lget.ok
        THEN /\ calls' = <<get, lget>>
             /\ result' = RawException("projects.get")
             /\ repo' = repo
        ELSE IF ~ltree.ok
        THEN /\ calls' = <<get, lget, ltree>>
             /\ result' = RawException("repository_tree")
             /\ repo' = repo
        ELSE IF ~commit.ok
        THEN /\ calls' = <<get, lget, ltree, commit>>
             /\ result' = commit_error(inputs)
             /\ repo' = repo
        ELSE IF ~create.ok
        THEN /\ calls' = <<get, lget, ltree, commit, create>>
             /\ result' = request_error(inputs)
             /\ repo' = landed.repo
        ELSE /\ calls' = <<get, lget, ltree, commit, create>>
             /\ result' = Returned
             /\ repo' = landed.repo

CreateMergeRequest ==
  /\ op = Idle
  /\ UNCHANGED <<requested, race>>
  /\ \E b \in BranchNames, m \in CommitMessages, t \in Titles, d \in Descriptions,
        f \in Dicts, down \in ToolOutages :
       create_merge_request(b, m, t, d, f, down)

\* ------------------------------------------- GitlabMergeRequestFactory
\* add_file_to_merge_request(file_path, file_contents)
add_file_to_merge_request(file_path, file_contents) ==
  /\ _files' = DictSet(_files, file_path, file_contents)
  /\ op' = [name |-> "add_file_to_merge_request",
            inputs |-> [file_path |-> file_path, file_contents |-> file_contents]]
  /\ calls' = <<>>
  /\ result' = Returned
  /\ UNCHANGED <<repo, _mr_branch, committed>>

AddFileToMergeRequest ==
  /\ op = Idle
  /\ UNCHANGED <<requested, race>>
  /\ \E p \in Paths, c \in Contents : add_file_to_merge_request(p, c)

\* variant: the except clause does not reset new_branch
new_branch_kept(accepted) == TRUE

\* the try/except around branches.create: new_branch is True when the call
\* went through and False after any exception
new_branch_after(accepted) == accepted

\* variant: only the baseline's tree is listed
existing_files_baseline_only(r, branch_name, new_branch) ==
  repository_tree(r, _source_branch)

\* variant: for a branch that was there already only its own tree is listed
existing_files_branch_only(r, branch_name, new_branch) ==
  IF new_branch THEN repository_tree(r, _source_branch)
  ELSE repository_tree(r, branch_name)

\* the two loops filling existing_files: the baseline's paths, then the
\* working branch's own when it was not newly created
existing_files_in(r, branch_name, new_branch) ==
  repository_tree(r, _source_branch)
    \cup (IF new_branch THEN {} ELSE repository_tree(r, branch_name))

\* variant: a rejected branches.create ends the step with its exception
branch_create_raises_if_rejected(accepted) == ~accepted

\* `except Exception:` catches whatever branches.create raises
branch_create_raises(accepted) == FALSE

\* variant: the pending edits are emptied once the commit is accepted
files_cleared_by_commit(files, landed) == IF landed THEN <<>> ELSE files

\* self._files after the step: the method has no assignment to it
files_after_commit(files, landed) == files

\* variant: the branch name is recorded before the commit is submitted
mr_branch_set_early(old, branch_name, landed) == branch_name

\* self._mr_branch after the step: `self._mr_branch = branch_name` comes
\* after commits.create and is reached only when that call returned
mr_branch_after(old, branch_name, landed) == IF landed THEN branch_name ELSE old

\* create_commit_in_branch(branch_name, commit_message)
create_commit_in_branch(branch_name, commit_message, down) ==
  LET creatable == branch_name \notin DOMAIN repo
      accepted == 245 \notin down /\ creatable
      bcreate == Call("branches.create", 245,
                      [branch |-> branch_name, ref |-> _source_branch],
                      accepted, Reason(245, down, creatable, "exists"))
      new_branch == new_branch_after(accepted)
      repo1 == IF accepted THEN branches_create(repo, branch_name, _source_branch)
               ELSE repo
      tree1 == Call("repository_tree", 252, [ref |-> _source_branch], 252 \notin down,
                    Reason(252, down, TRUE, ""))
      listed == branch_name \in DOMAIN repo1
      tree2 == Call("repository_tree", 257, [ref |-> branch_name],
                    257 \notin down /\ listed, Reason(257, down, listed, "not found"))
      existing_files == existing_files_in(repo1, branch_name, new_branch)
      actions == commit_actions(_files, existing_files)
      payload == [commit_message |-> commit_message,
                  author_email |-> None,
                  author_name |-> None,
                  actions |-> actions,
                  branch |-> branch_name,
                  start_branch |-> None]
      landed == commits_create(repo1, payload)
      commit == Call("commits.create", 271, payload, 271 \notin down /\ landed.ok,
                     Reason(271, down, landed.ok, "rejected"))
      listing == IF new_branch THEN <<tree1>> ELSE <<tree1, tree2>>
  IN /\ op' = [name |-> "create_commit_in_branch",
               inputs |-> [branch_name |-> branch_name, commit_message |-> commit_message]]
     /\ IF ~tree1.ok
        THEN /\ calls' = <<bcreate, tree1>>
             /\ result' = RawException("repository_tree")
             /\ repo' = repo1
             /\ _files' = files_after_commit(_files, FALSE)
             /\ _mr_branch' = mr_branch_after(_mr_branch, branch_name, FALSE)
             /\ UNCHANGED committed
        ELSE IF ~new_branch /\ ~tree2.ok
        THEN /\ calls' = <<bcreate, tree1, tree2>>
             /\ result' = RawException("repository_tree")
             /\ repo' = repo1
             /\ _files' = files_after_commit(_files, FALSE)
             /\ _mr_branch' = mr_branch_after(_mr_branch, branch_name, FALSE)
             /\ UNCHANGED committed
        ELSE IF ~commit.ok
        THEN /\ calls' = <<bcreate>> \o listing \o <<commit>>
             /\ result' = RawException("commits.create")
             /\ repo' = repo1
             /\ _files' = files_after_commit(_files, FALSE)
             /\ _mr_branch' = mr_branch_after(_mr_branch, branch_name, FALSE)
             /\ UNCHANGED committed
        ELSE /\ calls' = <<bcreate>> \o listing \o <<commit>>
             /\ result' = Returned
             /\ repo' = landed.repo
             /\ _files' = files_after_commit(_files, TRUE)
             /\ _mr_branch' = mr_branch_after(_mr_branch, branch_name, TRUE)
             /\ committed' = branch_name

CreateCommitInBranch ==
  /\ op = Idle
  /\ UNCHANGED <<requested, race>>
  /\ \E b \in BranchNames, m \in CommitMessages, down \in CommitOutages :
       create_commit_in_branch(b, m, down)

\* GitlabMergeRequestFactory.create_merge_request(title, description)
factory_create_merge_request(title, description, down) ==
  LET request == [source_branch |-> _mr_branch,
                  target_branch |-> _source_branch,
                  title |-> title,
                  description |-> description,
                  labels |-> None,
                  remove_source_branch |-> TRUE]
      opened == mergerequests_create(repo, request)
      create == Call("mergerequests.create", 278, request, 278 \notin down /\ opened,
                     Reason(278, down, opened, "rejected"))
  IN /\ op' = [name |-> "GitlabMergeRequestFactory.create_merge_request",
               inputs |-> [title |-> title, description |-> description]]
     /\ calls' = <<create>>
     /\ result' = IF create.ok THEN Returned ELSE RawException("mergerequests.create")
     /\ UNCHANGED <<repo, _files, _mr_branch, committed>>

FactoryCreateMergeRequest ==
  /\ op = Idle
  /\ UNCHANGED <<requested, race>>
  /\ \E t \in Titles, d \in Descriptions, down \in RequestOutages :
       factory_create_merge_request(t, d, down)

\* the same call, with the history of issued merge-request calls kept
TrackedCreateMergeRequest ==
  /\ op = Idle
  /\ requested' = TRUE
  /\ UNCHANGED race
  /\ \E t \in Titles, d \in Descriptions, down \in RequestOutages :
       factory_create_merge_request(t, d, down)

\* ------------------------------------------- list_files_in_merge_request
\* get_file_contents(branch, file_path=""): its calls and what comes of them
get_file_contents(r, branch, file_path, down) ==
  LET get == Call("projects.get", 205, None, 205 \notin down, Reason(205, down, TRUE, ""))
      served == files_get(r, branch, file_path)
      file == Call("files.get", 206, [file_path |-> file_path, ref |-> branch],
                   206 \notin down /\ served, Reason(206, down, served, "not found"))
  IN IF ~get.ok
     THEN [calls |-> <<get>>, raised |-> "projects.get", content |-> None]
     ELSE IF ~file.ok
     THEN [calls |-> <<get, file>>, raised |-> "files.get", content |-> None]
     ELSE [calls |-> <<get, file>>, raised |-> None,
           content |-> decoded(branch, file_path)]

\* the loop over the listed files: get_file_contents is called with the
\* branch alone, so file_path keeps its default ""; the first exception
\* ends the loop
RECURSIVE contents_of_listed(_, _, _, _, _)
contents_of_listed(r, branch, listing, files, down) ==
  IF listing = <<>>
  THEN [calls |-> <<>>, raised |-> None, files |-> files]
  ELSE LET gl_file == get_file_contents(r, branch, "", down)
       IN IF gl_file.raised # None
          THEN [calls |-> gl_file.calls, raised |-> gl_file.raised, files |-> files]
          ELSE LET rest == contents_of_listed(r, branch, Tail(listing),
                             DictSet(files, Head(listing), gl_file.content), down)
               IN [calls |-> gl_file.calls \o rest.calls,
                   raised |-> rest.raised,
                   files |-> rest.files]

\* list_files_in_merge_request(merge_request_id)
list_files_in_merge_request(merge_request_id, down) ==
  LET get == Call("projects.get", 40, None, 40 \notin down, Reason(40, down, TRUE, ""))
      known == merge_request_id \in DOMAIN MergeRequests
      mrget == Call("mergerequests.get", 41, [id |-> merge_request_id],
                    41 \notin down /\ known, Reason(41, down, known, "not found"))
      source_branch == MergeRequests[merge_request_id].source_branch
      lget == Call("projects.get", 54, None, 54 \notin down, Reason(54, down, TRUE, ""))
      listed == source_branch \in DOMAIN repo
      ltree == Call("repository_tree", 55, [ref |-> source_branch],
                    55 \notin down /\ listed, Reason(55, down, listed, "not found"))
      loop == contents_of_listed(repo, source_branch, tree_listing(repo, source_branch),
                                 <<>>, down)
  IN /\ op' = [name |-> "list_files_in_merge_request",
               inputs |-> [merge_request_id |-> merge_request_id]]
     /\ UNCHANGED <<repo, _files, _mr_branch, committed>>
     /\ IF ~get.ok
        THEN /\ calls' = <<get>>
             /\ result' = RawException("projects.get")
        ELSE IF ~mrget.ok
        THEN /\ calls' = <<get, mrget>>
             /\ result' = RawException("mergerequests.get")
        ELSE IF ~lget.ok
        THEN /\ calls' = <<get, mrget, lget>>
             /\ result' = RawException("projects.get")
        ELSE IF ~ltree.ok
        THEN /\ calls' = <<get, mrget, lget, ltree>>
             /\ result' = RawException("repository_tree")
        ELSE /\ calls' = <<get, mrget, lget, ltree>> \o loop.calls
             /\ result' = IF loop.raised # None THEN RawException(loop.raised)
                          ELSE ReturnedValue(loop.files)

ListFilesInMergeRequest ==
  /\ op = Idle
  /\ UNCHANGED <<requested, race>>
  /\ \E id \in MergeRequestIds, down \in QueryOutages :
       list_files_in_merge_request(id, down)

\* ------------------------- two instances in create_commit_in_branch
\* Two instances (two workers holding one factory each) run
\* create_commit_in_branch for the same branch name; each remote call of
\* each instance is one step, and the service answers every call.

\* an instance that is about to enter create_commit_in_branch
Orchestrator(files) ==
  [pc |-> "branches.create",
   _files |-> files,
   _mr_branch |-> None,
   new_branch |-> TRUE,
   existing_files |-> {},
   calls |-> <<>>,
   result |-> NoResult]

\* Each instance holds some pending edits; the repository holds "main" and
\* possibly the branch the race is about (no other branch is touched).
InitRace ==
  /\ \E b \in WorkBranches :
       /\ repo \in {r \in Repos : DOMAIN r \subseteq {_source_branch, b}}
       /\ \E f \in [Orchestrators -> EditSets] :
            race = [branch_name |-> b,
                    fresh |-> b \notin DOMAIN repo,
                    orchestrator |-> [i \in Orchestrators |-> Orchestrator(f[i])]]
  /\ _files = <<>>
  /\ _mr_branch = None
  /\ committed = None
  /\ requested = FALSE
  /\ op = Idle
  /\ calls = <<>>
  /\ result = NoResult

\* instance i becomes o
step_to(i, o) == [race EXCEPT !.orchestrator[i] = o]

\* the try/except around branches.create
race_branches_create(i) ==
  LET o == race.orchestrator[i]
      b == race.branch_name
      accepted == b \notin DOMAIN repo
      bcreate == Call("branches.create", 245, [branch |-> b, ref |-> _source_branch],
                      accepted, Reason(245, {}, accepted, "exists"))
      raises == branch_create_raises(accepted)
  IN /\ o.pc = "branches.create"
     /\ repo' = IF accepted THEN branches_create(repo, b, _source_branch) ELSE repo
     /\ race' = step_to(i, [o EXCEPT !.pc = IF raises THEN "done" ELSE "repository_tree",
                                     !.new_branch = new_branch_after(accepted),
                                     !.calls = Append(@, bcreate),
                                     !.result = IF raises THEN RawException("branches.create")
                                                ELSE @])

\* the loop over repository_tree(ref=self._source_branch)
race_list_source_branch(i) ==
  LET o == race.orchestrator[i]
      tree1 == Call("repository_tree", 252, [ref |-> _source_branch], TRUE, "")
  IN /\ o.pc = "repository_tree"
     /\ repo' = repo
     /\ race' = step_to(i, [o EXCEPT !.pc = IF o.new_branch THEN "commits.create"
                                            ELSE "repository_tree(branch_name)",
                                     !.existing_files = repository_tree(repo, _source_branch),
                                     !.calls = Append(@, tree1)])

\* `if not new_branch:` the loop over repository_tree(ref=branch_name)
race_list_branch(i) ==
  LET o == race.orchestrator[i]
      b == race.branch_name
      listed == b \in DOMAIN repo
      tree2 == Call("repository_tree", 257, [ref |-> b], listed,
                    Reason(257, {}, listed, "not found"))
  IN /\ o.pc = "repository_tree(branch_name)"
     /\ repo' = repo
     /\ race' = step_to(i,
          IF listed
          THEN [o EXCEPT !.pc = "commits.create",
                         !.existing_files = @ \cup repository_tree(repo, b),
                         !.calls = Append(@, tree2)]
          ELSE [o EXCEPT !.pc = "done",
                         !.calls = Append(@, tree2),
                         !.result = RawException("repository_tree")])

\* the loop building commit_actions, commits.create, and the assignment
\* to self._mr_branch behind it
race_commits_create(i, commit_message) ==
  LET o == race.orchestrator[i]
      b == race.branch_name
      actions == commit_actions(o._files, o.existing_files)
      payload == [commit_message |-> commit_message,
                  author_email |-> None,
                  author_name |-> None,
                  actions |-> actions,
                  branch |-> b,
                  start_branch |-> None]
      landed == commits_create(repo, payload)
      commit == Call("commits.create", 271, payload, landed.ok,
                     Reason(271, {}, landed.ok, "rejected"))
  IN /\ o.pc = "commits.create"
     /\ repo' = landed.repo
     /\ race' = step_to(i, [o EXCEPT !.pc = "done",
                                     !.calls = Append(@, commit),
                                     !._files = files_after_commit(@, landed.ok),
                                     !._mr_branch = mr_branch_after(@, b, landed.ok),
                                     !.result = IF landed.ok THEN Returned
                                                ELSE RawException("commits.create")])

\* what a step of a racing instance leaves alone
RaceFrame == UNCHANGED <<_files, _mr_branch, committed, requested, op, calls, result>>

RaceBranchesCreate == RaceFrame /\ \E i \in Orchestrators : race_branches_create(i)

RaceListSourceBranch == RaceFrame /\ \E i \in Orchestrators : race_list_source_branch(i)

RaceListBranch == RaceFrame /\ \E i \in Orchestrators : race_list_branch(i)

RaceCommitsCreate ==
  RaceFrame /\ \E i \in Orchestrators, m \in CommitMessages : race_commits_create(i, m)

\* ------------------------------------------------------- specifications
\* the orchestrator object driven by one caller
Next == AddFileToMergeRequest \/ CreateCommitInBranch \/ FactoryCreateMergeRequest \/ Acknowledge

Spec == Init /\ [][Next]_vars

\* the orchestrator object with its merge-request calls remembered
NextLifecycle ==
  AddFileToMergeRequest \/ CreateCommitInBranch \/ TrackedCreateMergeRequest \/ Acknowledge

SpecLifecycle == Init /\ [][NextLifecycle]_vars

\* the one-shot tool function driven by one caller
NextTool == CreateMergeRequest \/ ListFilesInMergeRequest \/ Acknowledge

SpecTool == Init /\ [][NextTool]_vars

\* two orchestrator objects committing to one branch name
NextRace ==
  RaceBranchesCreate \/ RaceListSourceBranch \/ RaceListBranch \/ RaceCommitsCreate

SpecRace == InitRace /\ [][NextRace]_vars

\* ================================================================ claims
\* the calls of the completed invocation to one client method
CallsTo(log, api) == SelectSeq(log, LAMBDA c : c.api = api)

\* every lookup and listing call of the log was answered
ReadsAnswered(log) ==
  \A i \in 1..Len(log) : log[i].api \in {"projects.get", "repository_tree"} => log[i].ok

\* the action list has exactly one action per key of the dict, with the
\* dict's content, labeled "update" exactly for the keys in `known`
Covers(actions, files, known) ==
  /\ Len(actions) = Cardinality(Keys(files))
  /\ \A k \in Keys(files) :
       \E i \in 1..Len(actions) :
         /\ actions[i].file_path = k
         /\ actions[i].content = DictGet(files, k)
         /\ actions[i].action = IF k \in known THEN "update" ELSE "create"
         /\ \A j \in 1..Len(actions) : actions[j].file_path = k => j = i

\* ---------------------------------------------------------------- C1
\* C1: a create_merge_request call with a non-empty files_updated whose
\* lookup and listing calls are answered issues exactly one commits.create
\* call; its action list has one action per key of files_updated, with that
\* key's content, labeled "update" iff the key was in the tree of "main"
\* before the call, else "create".  No call issues more than one commit.
C1_OneCommitOneActionPerKey ==
  [][(op'.name = "create_merge_request" /\ op = Idle)
       => LET files == op'.inputs.files_updated
              commits == CallsTo(calls', "commits.create")
          IN /\ Len(commits) <= 1
             /\ (files # <<>> /\ ReadsAnswered(calls'))
                  => /\ Len(commits) = 1
                     /\ Covers(commits[1].arg.actions, files, repo[mr_target_branch_name])]_vars

\* a call changed one existing file and added one new file in one commit
C1_Witness ==
  /\ op.name = "create_merge_request"
  /\ Len(op.inputs.files_updated) = 2
  /\ Len(CallsTo(calls, "commits.create")) = 1
  /\ \E i, j \in 1..2 :
       LET acts == CallsTo(calls, "commits.create")[1].arg.actions
       IN acts[i].action = "update" /\ acts[j].action = "create"

\* ---------------------------------------------------------------- C2
\* C2: create_merge_request with an empty files_updated raises a
\* PromptToolError carrying the tool name and the full inputs, issues no
\* remote call at all and leaves the repository as it was.
C2_EmptyMapRejectedLocally ==
  [][(op'.name = "create_merge_request" /\ op = Idle /\ op'.inputs.files_updated = <<>>)
       => /\ result'.kind = "PromptToolError"
          /\ result'.tool_name = "create_merge_request"
          /\ result'.inputs = op'.inputs
          /\ calls' = <<>>
          /\ repo' = repo]_vars

\* a call with an empty map has completed
C2_Witness ==
  /\ op.name = "create_merge_request"
  /\ op.inputs.files_updated = <<>>
  /\ result.kind = "PromptToolError"

\* ---------------------------------------------------------------- C3
\* C3: when the commits.create call of create_merge_request fails, the
\* caller gets a PromptToolError naming create_merge_request and the commit
\* stage, and no mergerequests.create call is issued in that invocation.
C3_FailedCommitStopsBeforeRequest ==
  (/\ op.name = "create_merge_request"
   /\ \E i \in 1..Len(calls) : calls[i].api = "commits.create" /\ ~calls[i].ok)
    => /\ result.kind = "PromptToolError"
       /\ result.tool_name = "create_merge_request"
       /\ result.message = "Problem creating commit!"
       /\ result.inputs = op.inputs
       /\ CallsTo(calls, "mergerequests.create") = <<>>
       /\ calls[Len(calls)].api = "commits.create"

\* the commit call of an invocation failed, by outage or by rejection
C3_Witness ==
  /\ op.name = "create_merge_request"
  /\ \E i \in 1..Len(calls) :
       calls[i].api = "commits.create" /\ ~calls[i].ok /\ calls[i].err = "rejected"

\* ---------------------------------------------------------------- C4
\* C4: when the commit of create_merge_request lands and its
\* mergerequests.create call then fails, the committed files stay on the
\* working branch, the invocation issued one commit call and one
\* merge-request call and nothing after them, and the error the caller gets
\* differs from the one a failed commit gives.
C4_RequestFailureKeepsCommit ==
  [][(/\ op'.name = "create_merge_request"
      /\ op = Idle
      /\ \E i \in 1..Len(calls') : calls'[i].api = "mergerequests.create" /\ ~calls'[i].ok)
       => LET b == op'.inputs.merge_request_branch
          IN /\ b \in DOMAIN repo'
             /\ Keys(op'.inputs.files_updated) \subseteq repo'[b]
             /\ \A x \in DOMAIN repo : x # b => x \in DOMAIN repo' /\ repo'[x] = repo[x]
             /\ Len(CallsTo(calls', "commits.create")) = 1
             /\ CallsTo(calls', "commits.create")[1].ok
             /\ Len(CallsTo(calls', "mergerequests.create")) = 1
             /\ calls'[Len(calls')].api = "mergerequests.create"
             /\ calls'[Len(calls') - 1].api = "commits.create"
             /\ result'.kind = "PromptToolError"
             /\ result'.tool_name = "create_merge_request"
             /\ result'.message = "Problem creating merge request from commit!"
             /\ result' # commit_error(op'.inputs)]_vars

\* the commit landed on a new working branch and the merge request failed
C4_Witness ==
  /\ op.name = "create_merge_request"
  /\ op.inputs.merge_request_branch # mr_target_branch_name
  /\ \E i \in 1..Len(calls) : calls[i].api = "commits.create" /\ calls[i].ok
  /\ \E i \in 1..Len(calls) : calls[i].api = "mergerequests.create" /\ ~calls[i].ok
  /\ Keys(op.inputs.files_updated) \subseteq repo[op.inputs.merge_request_branch]

\* ---------------------------------------------------------------- C5
\* C5: add_file_to_merge_request sets the pending content of its path and
\* leaves the other pending paths alone; a commit submitted by
\* create_commit_in_branch is the only one of its invocation and its action
\* list has one action per pending path, with the pending content, labeled
\* "update" iff the path is in the tree of "main" or, when the branch
\* existed before the call, in the tree of that branch; else "create".
C5_CommitCoversPendingEdits ==
  [][/\ (op'.name = "add_file_to_merge_request" /\ op = Idle)
          => LET p == op'.inputs.file_path
             IN /\ IsDict(_files')
                /\ Keys(_files') = Keys(_files) \cup {p}
                /\ DictGet(_files', p) = op'.inputs.file_contents
                /\ \A k \in Keys(_files) \ {p} : DictGet(_files', k) = DictGet(_files, k)
     /\ (op'.name = "create_commit_in_branch" /\ op = Idle)
          => LET b == op'.inputs.branch_name
                 commits == CallsTo(calls', "commits.create")
                 known == repo[_source_branch]
                            \cup (IF b \in DOMAIN repo THEN repo[b] ELSE {})
             IN /\ Len(commits) <= 1
                /\ _files' = _files
                /\ Len(commits) = 1
                     => /\ commits[1].arg.branch = b
                        /\ Covers(commits[1].arg.actions, _files, known)]_vars

\* a commit to a branch that existed before, whose two actions are an
\* update of a path only the working branch has and a create
C5_Witness ==
  /\ op.name = "create_commit_in_branch"
  /\ calls[1].err = "exists"
  /\ op.inputs.branch_name # _source_branch
  /\ Len(CallsTo(calls, "commits.create")) = 1
  /\ LET acts == CallsTo(calls, "commits.create")[1].arg.actions
     IN /\ Len(acts) = 2
        /\ \E i, j \in 1..2 :
             /\ acts[i].action = "update"
             /\ acts[i].file_path \notin repo[_source_branch]
             /\ acts[j].action = "create"

\* ---------------------------------------------------------------- C6
\* C6: every create_commit_in_branch invocation issues exactly one
\* branches.create call, first of all its calls.  For a branch the
\* repository lacks the call creates it (created = true: the branch's own
\* tree is not listed) and the branch stays in the repository; for a
\* branch the repository has, the call is rejected as "exists", nothing is
\* raised for it and the run goes on as created = false (its tree is
\* listed).  In both cases the commit is submitted once the listings are
\* answered.
C6_EnsureBranchIdempotent ==
  [][/\ \A b \in DOMAIN repo : b \in DOMAIN repo'
     /\ (op'.name = "create_commit_in_branch" /\ op = Idle)
          => LET b == op'.inputs.branch_name
                 bc == calls'[1]
                 own == {i \in 1..Len(calls') :
                           calls'[i].api = "repository_tree" /\ calls'[i].line = 257}
             IN /\ Len(CallsTo(calls', "branches.create")) = 1
                /\ bc.api = "branches.create"
                /\ bc.arg = [branch |-> b, ref |-> _source_branch]
                /\ (b \notin DOMAIN repo /\ bc.err # "unavailable")
                     => /\ bc.ok
                        /\ b \in DOMAIN repo'
                        /\ own = {}
                /\ (b \in DOMAIN repo /\ bc.err # "unavailable")
                     => /\ ~bc.ok
                        /\ bc.err = "exists"
                        /\ result'.message # "branches.create"
                        /\ calls'[2].ok => (own # {} /\ \A i \in own : calls'[i].arg.ref = b)
                /\ ReadsAnswered(calls') => Len(CallsTo(calls', "commits.create")) = 1]_vars

\* a run on a working branch that was there already: the creation is
\* rejected as "exists", the branch's tree is listed and the commit lands
C6_Witness ==
  /\ op.name = "create_commit_in_branch"
  /\ op.inputs.branch_name \in WorkBranches
  /\ calls[1].api = "branches.create"
  /\ calls[1].err = "exists"
  /\ _files # <<>>
  /\ Len(calls) = 4
  /\ calls[3].arg.ref = op.inputs.branch_name
  /\ calls[4].api = "commits.create"
  /\ calls[4].ok
  /\ result.kind = "return"

\* ---------------------------------------------------------------- C7
\* C7: when the branches.create call of create_commit_in_branch fails for
\* another reason than "exists", the invocation ends in an error with that
\* call as its only remote call: no tree listing, no commit, no working
\* branch recorded.
C7_OtherCreateFailureAborts ==
  (/\ op.name = "create_commit_in_branch"
   /\ ~calls[1].ok
   /\ calls[1].err # "exists")
    => /\ result.kind # "return"
       /\ Len(calls) = 1

\* ---------------------------------------------------------------- C8
\* C8: GitlabMergeRequestFactory.create_merge_request on an instance that
\* has not committed yet fails without issuing a remote call.
C8_RequestBeforeCommitRejected ==
  (/\ op.name = "GitlabMergeRequestFactory.create_merge_request"
   /\ committed = None)
    => /\ result.kind # "return"
       /\ calls = <<>>

\* ---------------------------------------------------------------- C9
\* C9: create_commit_in_branch with no pending edit fails with a
\* validation error and submits no commit with an empty action list.
C9_EmptyEditSetRejected ==
  (/\ op.name = "create_commit_in_branch"
   /\ _files = <<>>)
    => /\ result.kind = "PromptToolError"
       /\ \A i \in 1..Len(calls) :
            calls[i].api = "commits.create" => calls[i].arg.actions # <<>>

\* --------------------------------------------------------------- C10
\* C10: every mergerequests.create call of the factory has the branch of
\* the factory's most recent accepted commit as its source and "main" as
\* its target; every such call of the one-shot create_merge_request has
\* merge_request_branch as its source and "main" as its target.
C10_RequestSourceAndTarget ==
  \A i \in 1..Len(calls) :
    calls[i].api = "mergerequests.create"
      => /\ calls[i].arg.target_branch = "main"
         /\ op.name = "GitlabMergeRequestFactory.create_merge_request"
              => (committed # None /\ calls[i].arg.source_branch = committed)
         /\ op.name = "create_merge_request"
              => calls[i].arg.source_branch = op.inputs.merge_request_branch

\* --------------------------------------------------------------- C11
\* C11: every mergerequests.create call of the write workflow, from the
\* factory as from the one-shot create_merge_request, carries the labels
\* "ai,automerge".
C11_RequestsAreLabeled ==
  \A i \in 1..Len(calls) :
    calls[i].api = "mergerequests.create" => calls[i].arg.labels = "ai,automerge"

\* --------------------------------------------------------------- C12
\* The orchestrator's state as the pending edits, the accepted commit and
\* the issued merge-request call determine it.
Phase ==
  IF requested THEN "RequestOpen"
  ELSE IF committed # None THEN "Committed"
  ELSE IF _files # <<>> THEN "Accumulating"
  ELSE "Empty"

\* C12: one factory instance commits to at most one working branch and
\* issues at most one mergerequests.create call: once a commit is accepted
\* (Committed, RequestOpen) a further create_commit_in_branch is rejected
\* without a remote call, and so is a further create_merge_request once one
\* was issued (RequestOpen); the accepted commit's branch never changes and
\* no second merge-request call reaches the service.
C12_OneBranchOneRequest ==
  [][/\ (op = Idle /\ op'.name = "create_commit_in_branch"
           /\ Phase \in {"Committed", "RequestOpen"})
          => (calls' = <<>> /\ result'.kind # "return")
     /\ (op = Idle /\ op'.name = "GitlabMergeRequestFactory.create_merge_request"
           /\ Phase = "RequestOpen")
          => (calls' = <<>> /\ result'.kind # "return")
     /\ committed # None => committed' = committed
     /\ requested => CallsTo(calls', "mergerequests.create") = <<>>]_vars

\* --------------------------------------------------------------- C13
\* C13: whenever a commits.create call fails, in the factory's
\* create_commit_in_branch as in the one-shot create_merge_request, the
\* caller gets a PromptToolError naming the operation and carrying the full
\* input, never the raw exception of the client.
C13_CommitFailureIsStructured ==
  (\E i \in 1..Len(calls) : calls[i].api = "commits.create" /\ ~calls[i].ok)
    => /\ result.kind = "PromptToolError"
       /\ result.tool_name = op.name
       /\ result.inputs = op.inputs

\* --------------------------------------------------------------- C14
\* C14: a create_merge_request call for a working branch the repository
\* already has, with every remote call answered, does not fail for it: one
\* commit is submitted and accepted on that branch and one
\* mergerequests.create call follows.
C14_ExistingBranchIsReused ==
  [][(/\ op = Idle
      /\ op'.name = "create_merge_request"
      /\ op'.inputs.files_updated # <<>>
      /\ op'.inputs.merge_request_branch \in DOMAIN repo
      /\ op'.inputs.merge_request_branch # mr_target_branch_name
      /\ \A i \in 1..Len(calls') : calls'[i].err # "unavailable")
       => /\ Len(CallsTo(calls', "commits.create")) = 1
          /\ CallsTo(calls', "commits.create")[1].ok
          /\ Len(CallsTo(calls', "mergerequests.create")) = 1]_vars

\* --------------------------------------------------------------- C15
\* C15: when two instances run create_commit_in_branch for one branch name
\* the repository lacked, then in every interleaving of their calls exactly
\* one branches.create call is accepted, the other is rejected as "exists"
\* and that instance goes on as for an existing branch; no instance ends
\* with a branch-creation error, and every instance that has ended its step
\* has issued its commits.create call.
C15_CreationRaceResolved ==
  LET o == race.orchestrator
      entered == {i \in Orchestrators : o[i].calls # <<>>}
      created == {i \in entered : o[i].calls[1].ok}
  IN (race.branch_name # None /\ race.fresh)
       => /\ \A i \in entered : o[i].calls[1].api = "branches.create"
          /\ entered # {} => Cardinality(created) = 1
          /\ \A i \in entered \ created :
               /\ o[i].calls[1].err = "exists"
               /\ ~o[i].new_branch
          /\ \A i \in Orchestrators :
               /\ o[i].result.message # "branches.create"
               /\ o[i].pc = "done"
                    => /\ Len(CallsTo(o[i].calls, "commits.create")) = 1
                       /\ o[i].calls[Len(o[i].calls)].api = "commits.create"

\* both instances have ended their step on a branch name that was new: one
\* created the branch, the other was told it exists, both commits landed
C15_Witness ==
  /\ race.branch_name # None
  /\ race.fresh
  /\ \A i \in Orchestrators :
       /\ race.orchestrator[i].pc = "done"
       /\ race.orchestrator[i].result.kind = "return"
       /\ race.orchestrator[i]._files # <<>>
  /\ \E i, j \in Orchestrators :
       /\ race.orchestrator[i].calls[1].ok
       /\ race.orchestrator[j].calls[1].err = "exists"

\* --------------------------------------------------------------- C16
\* C16: a list_files_in_merge_request call for a known merge request whose
\* calls all reach the service returns a dict whose keys are the paths of
\* the source branch's tree and whose value at each path is the decoded
\* content of the file at that path; it fetches each listed file once, at
\* the file's own path.
C16_RequestFilesWithContents ==
  (/\ op.name = "list_files_in_merge_request"
   /\ op.inputs.merge_request_id \in DOMAIN MergeRequests
   /\ MergeRequests[op.inputs.merge_request_id].source_branch \in DOMAIN repo
   /\ \A i \in 1..Len(calls) : calls[i].err # "unavailable")
    => LET b == MergeRequests[op.inputs.merge_request_id].source_branch
           fetches == CallsTo(calls, "files.get")
       IN /\ Len(fetches) = Cardinality(repo[b])
          /\ \A p \in repo[b] :
               \E i \in 1..Len(fetches) : fetches[i].arg = [file_path |-> p, ref |-> b]
          /\ result.kind = "return"
          /\ Keys(result.value) = repo[b]
          /\ \A p \in repo[b] : DictGet(result.value, p) = decoded(b, p)

\* --------------------------------------------------------------- C17
\* C17: in a create_commit_in_branch step on a branch the repository had
\* before the call, an action for a pending path that is in the tree of
\* "main" and not in the tree of the branch is labeled "update"; an action
\* is labeled "update" exactly when its path is in one of the two trees.
C17_BaselinePathStaysUpdate ==
  [][(/\ op = Idle
      /\ op'.name = "create_commit_in_branch"
      /\ op'.inputs.branch_name \in DOMAIN repo)
       => LET b == op'.inputs.branch_name
              commits == CallsTo(calls', "commits.create")
          IN \A c \in 1..Len(commits) :
               \A k \in 1..Len(commits[c].arg.actions) :
                 LET a == commits[c].arg.actions[k]
                 IN /\ (a.file_path \in repo[_source_branch] /\ a.file_path \notin repo[b])
                         => a.action = "update"
                    /\ a.action = "update"
                         <=> a.file_path \in repo[_source_branch] \cup repo[b]]_vars

\* a commit was submitted to a working branch that was there already, with
\* an "update" for a path "main" has and the working branch lacks
C17_Witness ==
  /\ op.name = "create_commit_in_branch"
  /\ op.inputs.branch_name # _source_branch
  /\ calls[1].err = "exists"
  /\ \E c \in 1..Len(calls) :
       /\ calls[c].api = "commits.create"
       /\ \E k \in 1..Len(calls[c].arg.actions) :
            /\ calls[c].arg.actions[k].action = "update"
            /\ calls[c].arg.actions[k].file_path \in repo[_source_branch]
            /\ calls[c].arg.actions[k].file_path \notin repo[op.inputs.branch_name]

\* --------------------------------------------------------------- C18
\* C18: create_commit_in_branch leaves self._files as it was, also when the
\* commit is accepted; add_file_to_merge_request never drops a pending
\* path; an accepted commit puts every pending path on its branch and no
\* step takes a path off a branch.  So every later commit of the instance
\* has an action for every path added so far, and labels "update" the
\* pending paths the branch already has, the ones of its earlier commits
\* among them.
C18_CommitKeepsPendingEdits ==
  [][/\ \A x \in DOMAIN repo : x \in DOMAIN repo' /\ repo[x] \subseteq repo'[x]
     /\ (op = Idle /\ op'.name = "add_file_to_merge_request")
          => Keys(_files) \subseteq Keys(_files')
     /\ (op = Idle /\ op'.name = "create_commit_in_branch")
          => LET b == op'.inputs.branch_name
                 commits == CallsTo(calls', "commits.create")
             IN /\ _files' = _files
                /\ result'.kind = "return"
                     => (b \in DOMAIN repo' /\ Keys(_files) \subseteq repo'[b])
                /\ \A c \in 1..Len(commits) :
                     LET acts == commits[c].arg.actions
                     IN /\ Len(acts) = Len(_files)
                        /\ {acts[k].file_path : k \in 1..Len(acts)} = Keys(_files)
                        /\ \A k \in 1..Len(acts) :
                             (b \in DOMAIN repo /\ acts[k].file_path \in repo[b])
                               => acts[k].action = "update"]_vars

\* a further commit step of an instance on the branch of its accepted
\* commit (the call did not get through): it resubmits both pending
\* paths, one as "update" of a path only the working branch has, the
\* other, added since, as "create"
C18_Witness ==
  /\ op.name = "create_commit_in_branch"
  /\ committed = op.inputs.branch_name
  /\ committed # _source_branch
  /\ \E c \in 1..Len(calls) :
       /\ calls[c].api = "commits.create"
       /\ calls[c].err = "unavailable"
       /\ Len(calls[c].arg.actions) = 2
       /\ \E i, j \in 1..2 :
            /\ calls[c].arg.actions[i].action = "update"
            /\ calls[c].arg.actions[i].file_path \notin repo[_source_branch]
            /\ calls[c].arg.actions[j].action = "create"

\* --------------------------------------------------------------- C19
\* C19: self._mr_branch is always the branch of the instance's most recent
\* accepted commit (or None when there is none) and that branch is in the
\* repository.  Only a create_commit_in_branch step whose commits.create
\* call was accepted changes it; a step that fails, in a tree listing or in
\* the commit call, leaves self._mr_branch and self._files as they were.
\* A mergerequests.create call of an instance that has committed names
\* the branch of its accepted commit, never the one of a failed attempt.
C19_BranchRecordedOnlyByLandedCommit ==
  /\ [](/\ _mr_branch = committed
        /\ _mr_branch # None => _mr_branch \in DOMAIN repo)
  /\ [][/\ (op = Idle /\ op'.name = "create_commit_in_branch")
             => LET b == op'.inputs.branch_name
                    landed == \E c \in 1..Len(calls') :
                                calls'[c].api = "commits.create" /\ calls'[c].ok
                IN /\ landed <=> result'.kind = "return"
                   /\ landed => _mr_branch' = b
                   /\ ~landed => (_mr_branch' = _mr_branch /\ _files' = _files)
        /\ (op = Idle /\ op'.name # "create_commit_in_branch")
             => _mr_branch' = _mr_branch
        /\ (/\ op = Idle
            /\ op'.name = "GitlabMergeRequestFactory.create_merge_request"
            /\ committed # None)
             => calls'[1].arg.source_branch = committed]_vars

\* a commit attempt for another branch than the recorded one has failed in
\* its commit call, and the recorded branch is still the earlier one
C19_Witness ==
  /\ op.name = "create_commit_in_branch"
  /\ result.kind # "return"
  /\ \E c \in 1..Len(calls) : calls[c].api = "commits.create" /\ ~calls[c].ok
  /\ _mr_branch # None
  /\ _mr_branch # op.inputs.branch_name
  /\ _files # <<>>

\* --------------------------------------------------------------- C20
\* the "create" actions of a commit call whose path the tree already has
StaleCreates(commit, tree) ==
  {commit.arg.actions[k].file_path : k \in
     {n \in 1..Len(commit.arg.actions) :
        /\ commit.arg.actions[n].action = "create"
        /\ commit.arg.actions[n].file_path \in tree}}

\* instance i issues its commits.create call in this step
Submits(i) ==
  /\ race.branch_name # None
  /\ race.orchestrator[i].pc = "commits.create"
  /\ race'.orchestrator[i].pc = "done"

\* the commits.create call instance i has just issued
Submitted(i) == race'.orchestrator[i].calls[Len(race'.orchestrator[i].calls)]

\* C20 as stated: no commits.create call of an instance, alone or in any
\* interleaving with another instance on the same branch name, has a
\* "create" action for a path the branch's tree holds when the call is
\* submitted.
C20_NoCreateForPresentPath ==
  [][\A i \in Orchestrators :
       Submits(i) => StaleCreates(Submitted(i), repo[race.branch_name]) = {}]_vars

\* C20 amended: as long as the other instance has landed no commit, an
\* instance submits no "create" for a path the branch holds.  A "create"
\* for a path the branch holds is submitted only for paths the other
\* instance's accepted commit put there after this instance listed the
\* trees (the instance that created the branch lists "main" only); the
\* service rejects that commit as a whole, the repository stays as it is,
\* the client's exception reaches the caller and self._mr_branch stays
\* unset.
C20_StaleCreateOnlyAfterRivalCommit ==
  [][\A i \in Orchestrators :
       Submits(i)
         => LET stale == StaleCreates(Submitted(i), repo[race.branch_name])
                rivals == Orchestrators \ {i}
                landed == {j \in rivals : race.orchestrator[j].result.kind = "return"}
            IN /\ landed = {} => stale = {}
               /\ stale # {}
                    => /\ \A p \in stale :
                            /\ p \notin race.orchestrator[i].existing_files
                            /\ \E j \in landed : p \in Keys(race.orchestrator[j]._files)
                       /\ ~Submitted(i).ok
                       /\ Submitted(i).err = "rejected"
                       /\ repo' = repo
                       /\ race'.orchestrator[i].result = RawException("commits.create")
                       /\ race'.orchestrator[i]._mr_branch = None]_vars

\* the instance that created the branch listed "main" only, the other
\* instance's commit put a new path on the branch, and the creator's commit
\* with a "create" for that path was rejected
C20_Witness ==
  /\ race.branch_name # None
  /\ \E i, j \in Orchestrators :
       LET o == race.orchestrator[i]
       IN /\ i # j
          /\ o.pc = "done"
          /\ o.calls[1].ok
          /\ o.new_branch
          /\ o.calls[Len(o.calls)].api = "commits.create"
          /\ o.calls[Len(o.calls)].err = "rejected"
          /\ StaleCreates(o.calls[Len(o.calls)], repo[race.branch_name]) # {}
          /\ o._mr_branch = None
          /\ race.orchestrator[j].result.kind = "return"

====
